---------------------------- MODULE Spec2Model ----------------------------
(***************************************************************************)
(* The movie store of FirstAPI: the movies table behind MovieModel         *)
(* (Insert, Get, Update, Delete, GetAll), the optimistic-concurrency       *)
(* update keyed on (id, version), and the HTTP handlers that call it.      *)
(*                                                                         *)
(* Every MovieModel method issues exactly one SQL statement, which the     *)
(* database executes atomically; what a method does before and after it    *)
(* touches only the caller's own Movie struct.  A call is therefore one    *)
(* step of the model, and concurrency between callers is the order in      *)
(* which their statements reach the database.                              *)
(***************************************************************************)
EXTENDS Integers, Sequences, FiniteSets, TLC

VARIABLES
    table,   \* the rows of the movies table
    seq,     \* last value handed out by the id sequence (bigserial)
    deleted, \* history: the ids a Delete has removed
    movie,   \* per caller: the Movie struct its *Movie points to, or NilMovie
    call,    \* the MovieModel call made by the latest step, and its outcome
    pc,      \* per caller: position inside updateMovieHandler
    resp,    \* the status of the HTTP response written by the latest step
    rejected, \* why the latest step's handler ended before any call
    handler, \* the handler the latest step belongs to
    errors,  \* the field errors of the Validator last passed to ValidateMovie
             \* outside a request
    wire,    \* the runtime member of the JSON text last written for a movie
             \* outside a request, or typed by a client
    ctx,     \* per caller: the method whose statement is waiting for the
             \* backend, and the seconds its context has run
    written  \* the http.ResponseWriter of the latest step's request: the
             \* header map, the status sent and the writes to the body

vars == <<table, seq, deleted, movie, call, pc, resp, rejected, handler,
          errors, wire, ctx, written>>

-----------------------------------------------------------------------------
(* Bounds of the model *)

MaxId == 2
MaxVersion == 2

(* Movies that create requests may add *)
MaxMovies == 1

(* Program constants *)

MinYear == 1888
MaxTitleBytes == 500
MaxGenres == 5
CurrentYear == 2026

Procs == {"w1", "w2"}

-----------------------------------------------------------------------------
(* Errors returned by the repository *)

ErrNone == "nil"
ErrRecordNotFound == "record not found"
ErrEditConflict == "edit conflict"
ErrStorage == "storage failure"

(* A nil *Movie, and a nil []string *)
NilMovie == [isNil |-> TRUE]
NilSlice == <<"<nil>">>

(* len() of a []string *)
SliceLen(g) == IF g = NilSlice THEN 0 ELSE Len(g)

(* The zero value of the Movie struct *)
ZeroMovie ==
    [ID |-> 0, CreatedAt |-> 0, Title |-> "", Year |-> 0, Runtime |-> 0,
     Genres |-> NilSlice, Version |-> 0]

(* Field values callers put into a movie: title, year, runtime, genres *)
Contents ==
    { [Title |-> "Casablanca", Year |-> 1942, Runtime |-> 102,
       Genres |-> <<"drama", "romance", "war">>],
      [Title |-> "Alien", Year |-> 1979, Runtime |-> 117,
       Genres |-> <<"horror">>] }

(* A movie struct with its four content fields assigned *)
WithContent(m, c) ==
    [m EXCEPT !.Title = c.Title, !.Year = c.Year, !.Runtime = c.Runtime,
              !.Genres = c.Genres]

(* Ids callers ask for: below 1, existing or not *)
IdArgs == -1 .. MaxId

-----------------------------------------------------------------------------
(* The database: column defaults and the statements of MovieModel *)

(* version's default *)
DefaultVersion == 1

(* created_at's default, the time of the insert.  Time is read only by     *)
(* inserts, so it is kept as a logical clock that advances with them.      *)
Now == 10 * (seq + 1)

(* The insert with an id sequence that starts at 0 *)
InsertRowFromZero(m) ==
    [id |-> seq, created_at |-> Now, title |-> m.Title, year |-> m.Year,
     runtime |-> m.Runtime, genres |-> m.Genres, version |-> DefaultVersion]

(* The insert with the id taken as the row count plus one, not from the    *)
(* sequence, so that the id of a deleted row is handed out again           *)
InsertRowCounted(m) ==
    [id |-> Cardinality(table) + 1, created_at |-> Now, title |-> m.Title,
     year |-> m.Year, runtime |-> m.Runtime, genres |-> m.Genres,
     version |-> DefaultVersion]

(* INSERT INTO movies (title, year, runtime, genres) VALUES ($1..$4):      *)
(* id from the sequence, created_at from the clock, version 1              *)
InsertRow(m) ==
    [id |-> seq + 1, created_at |-> Now, title |-> m.Title, year |-> m.Year,
     runtime |-> m.Runtime, genres |-> m.Genres, version |-> DefaultVersion]

(* rows.Scan / row.Scan of a whole row into a Movie struct *)
ScanMovie(r) ==
    [ID |-> r.id, CreatedAt |-> r.created_at, Title |-> r.title,
     Year |-> r.year, Runtime |-> r.runtime, Genres |-> r.genres,
     Version |-> r.version]

(* WHERE id = $1 of Get and Delete *)
WhereId(r, id) == r.id = id

(* The update without its version condition: WHERE id = $5 *)
UpdateWhereIdOnly(r, m) == r.id = m.ID

(* The update that matches no row when it would change no column *)
UpdateWhereChanged(r, m) ==
    /\ r.id = m.ID /\ r.version = m.Version
    /\ <<r.title, r.year, r.runtime, r.genres>>
          # <<m.Title, m.Year, m.Runtime, m.Genres>>

(* WHERE id = $5 AND version = $6 of Update *)
UpdateWhere(r, m) == r.id = m.ID /\ r.version = m.Version

(* The update with version = version - 1 *)
UpdateSetDecrements(r, m) ==
    [r EXCEPT !.title = m.Title, !.year = m.Year, !.runtime = m.Runtime,
              !.genres = m.Genres, !.version = r.version - 1]

(* The update that also stamps created_at *)
UpdateSetStampsCreatedAt(r, m) ==
    [r EXCEPT !.title = m.Title, !.year = m.Year, !.runtime = m.Runtime,
              !.genres = m.Genres, !.version = r.version + 1,
              !.created_at = Now]

(* The update with the version left as it was *)
UpdateSetKeepsVersion(r, m) ==
    [r EXCEPT !.title = m.Title, !.year = m.Year, !.runtime = m.Runtime,
              !.genres = m.Genres]

(* SET title = $1, year = $2, runtime = $3, genres = $4,                   *)
(*     version = version + 1 of Update                                     *)
UpdateSet(r, m) ==
    [r EXCEPT !.title = m.Title, !.year = m.Year, !.runtime = m.Runtime,
              !.genres = m.Genres, !.version = r.version + 1]

(* The outcome of a method: the table and sequence after it, what the      *)
(* caller's movie holds, the error returned, the backend round trips made, *)
(* and (GetAll) the slice returned.                                        *)
Outcome(t, s, m, e, n, l) ==
    [table |-> t, seq |-> s, movie |-> m, err |-> e, trips |-> n, rows |-> l]

(* MovieModel.Insert(movie).  answered: the backend executed the statement *)
(* within the 3 s timeout; otherwise QueryRowContext reports an error.     *)
Insert(m, answered) ==
    IF ~answered
    THEN Outcome(table, seq, m, ErrStorage, 1, <<>>)
    ELSE LET r == InsertRow(m)
         IN  Outcome(table \cup {r}, r.id,
                     [m EXCEPT !.ID = r.id, !.CreatedAt = r.created_at,
                               !.Version = r.version],
                     ErrNone, 1, <<>>)

(* Get without the id < 1 short cut: the query runs and finds no row *)
GetAlwaysQueries(id, answered) ==
    IF ~answered
    THEN Outcome(table, seq, NilMovie, ErrStorage, 1, <<>>)
    ELSE LET found == {r \in table : WhereId(r, id)}
         IN  IF found = {}
             THEN Outcome(table, seq, NilMovie, ErrRecordNotFound, 1, <<>>)
             ELSE Outcome(table, seq, ScanMovie(CHOOSE r \in found : TRUE),
                          ErrNone, 1, <<>>)

(* MovieModel.Get(id) *)
Get(id, answered) ==
    IF id < 1
    THEN Outcome(table, seq, NilMovie, ErrRecordNotFound, 0, <<>>)
    ELSE IF ~answered
    THEN Outcome(table, seq, NilMovie, ErrStorage, 1, <<>>)
    ELSE LET found == {r \in table : WhereId(r, id)}
         IN  IF found = {}
             THEN Outcome(table, seq, NilMovie, ErrRecordNotFound, 1, <<>>)
             ELSE Outcome(table, seq, ScanMovie(CHOOSE r \in found : TRUE),
                          ErrNone, 1, <<>>)

(* Update with sql.ErrNoRows mapped to ErrRecordNotFound, as Get maps it *)
UpdateNotFound(m, answered) ==
    IF ~answered
    THEN Outcome(table, seq, m, ErrStorage, 1, <<>>)
    ELSE LET matched == {r \in table : UpdateWhere(r, m)}
             updated == {UpdateSet(r, m) : r \in matched}
         IN  IF updated = {}
             THEN Outcome(table, seq, m, ErrRecordNotFound, 1, <<>>)
             ELSE Outcome((table \ matched) \cup updated, seq,
                          [m EXCEPT !.Version =
                               (CHOOSE r \in updated : TRUE).version],
                          ErrNone, 1, <<>>)

(* MovieModel.Update(movie) *)
Update(m, answered) ==
    IF ~answered
    THEN Outcome(table, seq, m, ErrStorage, 1, <<>>)
    ELSE LET matched == {r \in table : UpdateWhere(r, m)}
             updated == {UpdateSet(r, m) : r \in matched}
         IN  IF updated = {}
             THEN Outcome(table, seq, m, ErrEditConflict, 1, <<>>)
             ELSE Outcome((table \ matched) \cup updated, seq,
                          [m EXCEPT !.Version =
                               (CHOOSE r \in updated : TRUE).version],
                          ErrNone, 1, <<>>)

(* Delete that does not look at RowsAffected *)
DeleteIgnoresRowsAffected(id, m, answered) ==
    IF id < 1
    THEN Outcome(table, seq, m, ErrRecordNotFound, 0, <<>>)
    ELSE IF ~answered
    THEN Outcome(table, seq, m, ErrStorage, 1, <<>>)
    ELSE Outcome(table \ {r \in table : WhereId(r, id)}, seq, m, ErrNone, 1,
                 <<>>)

(* MovieModel.Delete(id).  m is the caller's movie, which Delete never sees *)
Delete(id, m, answered) ==
    IF id < 1
    THEN Outcome(table, seq, m, ErrRecordNotFound, 0, <<>>)
    ELSE IF ~answered
    THEN Outcome(table, seq, m, ErrStorage, 1, <<>>)
    ELSE LET matched == {r \in table : WhereId(r, id)}
             rowsAffected == Cardinality(matched)
         IN  IF rowsAffected = 0
             THEN Outcome(table, seq, m, ErrRecordNotFound, 1, <<>>)
             ELSE Outcome(table \ matched, seq, m, ErrNone, 1, <<>>)

(* ORDER BY id DESC *)
RECURSIVE OrderByIdDesc(_)
OrderByIdDesc(t) ==
    IF t = {} THEN <<>>
    ELSE LET first == CHOOSE r \in t : \A o \in t : r.id >= o.id
         IN  <<first>> \o OrderByIdDesc(t \ {first})

(* ORDER BY id: the rows of t as a sequence, smallest id first *)
RECURSIVE OrderById(_)
OrderById(t) ==
    IF t = {} THEN <<>>
    ELSE LET first == CHOOSE r \in t : \A o \in t : r.id <= o.id
         IN  <<first>> \o OrderById(t \ {first})

(* A nil []*Movie *)
NilMovies == <<[isNilSlice |-> TRUE]>>

(* GetAll with "var movies []*Movie": no row leaves the slice nil *)
GetAllNilWhenEmpty(m, answered) ==
    IF ~answered
    THEN Outcome(table, seq, m, ErrStorage, 1, NilMovies)
    ELSE LET rows == OrderById(table)
         IN  Outcome(table, seq, m, ErrNone, 1,
                     IF rows = <<>> THEN NilMovies
                     ELSE [i \in 1 .. Len(rows) |-> ScanMovie(rows[i])])

(* MovieModel.GetAll(title, genres, filters): the arguments are not used *)
GetAll(m, answered) ==
    IF ~answered
    THEN Outcome(table, seq, m, ErrStorage, 1, NilMovies)
    ELSE LET rows == OrderById(table)
         IN  Outcome(table, seq, m, ErrNone, 1,
                     [i \in 1 .. Len(rows) |-> ScanMovie(rows[i])])

-----------------------------------------------------------------------------
(* validator.Validator: field errs, the first message per field kept *)

NoErrors == <<>>

AddError(errs, key, message) ==
    IF key \in DOMAIN errs THEN errs ELSE errs @@ (key :> message)

Check(errs, ok, key, message) ==
    IF ok THEN errs ELSE AddError(errs, key, message)

Valid(errs) == DOMAIN errs = {}

Unique(values) ==
    \/ values = NilSlice
    \/ Cardinality({values[i] : i \in 1 .. Len(values)}) = Len(values)

(* A title longer than MaxTitleBytes *)
LongTitle == "<a title of 501 bytes>"

(* len() of a title, in bytes *)
ByteLen(title) ==
    CASE title = "" -> 0
      [] title = "Alien" -> 5
      [] title = "Casablanca" -> 10
      [] title = LongTitle -> MaxTitleBytes + 1

(* ValidateMovie without its last check, that the genres are unique *)
ValidateMovieAllowsDuplicates(m) ==
    LET v1 == Check(NoErrors, m.Title # "", "title", "must be provided")
        v2 == Check(v1, ByteLen(m.Title) <= MaxTitleBytes, "title",
                    "must not be more than 500 bytes long")
        v3 == Check(v2, m.Year # 0, "year", "must be provided")
        v4 == Check(v3, m.Year >= MinYear, "year", "must be greater than 1888")
        v5 == Check(v4, m.Year <= CurrentYear, "year",
                    "must not be in the future")
        v6 == Check(v5, m.Runtime # 0, "runtime", "must be provided")
        v7 == Check(v6, m.Runtime > 0, "runtime", "must be a positive integer")
        v8 == Check(v7, m.Genres # NilSlice, "genres", "must be provided")
        v9 == Check(v8, SliceLen(m.Genres) >= 1, "genres",
                    "must contain at least 1 genre")
    IN  Check(v9, SliceLen(m.Genres) <= MaxGenres, "genres",
              "must not contain more than 5 genres")

(* A check that is skipped once an error has been recorded *)
CheckUnlessFailed(errs, ok, key, message) ==
    IF errs # NoErrors THEN errs ELSE Check(errs, ok, key, message)

(* ValidateMovie that stops at the first check that fails *)
ValidateMovieStopsAtFirst(m) ==
    LET v1 == Check(NoErrors, m.Title # "", "title", "must be provided")
        v2 == CheckUnlessFailed(v1, ByteLen(m.Title) <= MaxTitleBytes,
                    "title", "must not be more than 500 bytes long")
        v3 == CheckUnlessFailed(v2, m.Year # 0, "year", "must be provided")
        v4 == CheckUnlessFailed(v3, m.Year >= MinYear, "year",
                    "must be greater than 1888")
        v5 == CheckUnlessFailed(v4, m.Year <= CurrentYear, "year",
                    "must not be in the future")
        v6 == CheckUnlessFailed(v5, m.Runtime # 0, "runtime",
                    "must be provided")
        v7 == CheckUnlessFailed(v6, m.Runtime > 0, "runtime",
                    "must be a positive integer")
        v8 == CheckUnlessFailed(v7, m.Genres # NilSlice, "genres",
                    "must be provided")
        v9 == CheckUnlessFailed(v8, SliceLen(m.Genres) >= 1, "genres",
                    "must contain at least 1 genre")
        v10 == CheckUnlessFailed(v9, SliceLen(m.Genres) <= MaxGenres,
                     "genres", "must not contain more than 5 genres")
    IN  CheckUnlessFailed(v10, Unique(m.Genres), "genres",
              "must not contain dupliate values")

(* data.ValidateMovie: every check runs, in this order *)
ValidateMovie(m) ==
    LET v1 == Check(NoErrors, m.Title # "", "title", "must be provided")
        v2 == Check(v1, ByteLen(m.Title) <= MaxTitleBytes, "title",
                    "must not be more than 500 bytes long")
        v3 == Check(v2, m.Year # 0, "year", "must be provided")
        v4 == Check(v3, m.Year >= MinYear, "year", "must be greater than 1888")
        v5 == Check(v4, m.Year <= CurrentYear, "year",
                    "must not be in the future")
        v6 == Check(v5, m.Runtime # 0, "runtime", "must be provided")
        v7 == Check(v6, m.Runtime > 0, "runtime", "must be a positive integer")
        v8 == Check(v7, m.Genres # NilSlice, "genres", "must be provided")
        v9 == Check(v8, SliceLen(m.Genres) >= 1, "genres",
                    "must contain at least 1 genre")
        v10 == Check(v9, SliceLen(m.Genres) <= MaxGenres, "genres",
                     "must not contain more than 5 genres")
    IN  Check(v10, Unique(m.Genres), "genres",
              "must not contain dupliate values")

-----------------------------------------------------------------------------
(* The JSON form of Movie.Runtime.  JSON text is a sequence of characters *)

(* An object without the member *)
NoMember == <<>>

Digit(d) ==
    CASE d = 0 -> "0" [] d = 1 -> "1" [] d = 2 -> "2" [] d = 3 -> "3"
      [] d = 4 -> "4" [] d = 5 -> "5" [] d = 6 -> "6" [] d = 7 -> "7"
      [] d = 8 -> "8" [] d = 9 -> "9"

DigitValue(c) == CHOOSE d \in 0 .. 9 : Digit(d) = c

IsDigit(c) == \E d \in 0 .. 9 : Digit(d) = c

(* fmt.Sprintf("%d", n), which is also how encoding/json writes an int32 *)
RECURSIVE FormatInt(_)
FormatInt(n) ==
    IF n < 0 THEN <<"-">> \o FormatInt(-n)
    ELSE IF n < 10 THEN <<Digit(n)>>
    ELSE FormatInt(n \div 10) \o <<Digit(n % 10)>>

(* strconv.Quote of text without characters to escape *)
Quote(text) == <<"\"">> \o text \o <<"\"">>

(* Runtime.MarshalJSON *)
MarshalJSON(r) == Quote(FormatInt(r) \o <<" ", "m", "i", "n", "s">>)

(* The runtime member json.Marshal writes for a Movie: `json:"runtime,     *)
(* omitempty"` leaves the member out when the runtime is 0                 *)
EncodeRuntime(r) == IF r = 0 THEN NoMember ELSE MarshalJSON(r)

(* The digits of a JSON integer literal, without its sign *)
Unsigned(text) == IF text # <<>> /\ Head(text) = "-" THEN Tail(text) ELSE text

(* A JSON number literal without fraction or exponent *)
IsIntegerLiteral(text) ==
    LET digits == Unsigned(text)
    IN  /\ digits # <<>>
        /\ \A i \in 1 .. Len(digits) : IsDigit(digits[i])
        /\ Len(digits) > 1 => digits[1] # "0"

RECURSIVE ParseDigits(_)
ParseDigits(digits) ==
    IF digits = <<>> THEN 0
    ELSE 10 * ParseDigits(SubSeq(digits, 1, Len(digits) - 1))
            + DigitValue(digits[Len(digits)])

ParseInt(text) ==
    IF Head(text) = "-" THEN 0 - ParseDigits(Unsigned(text))
    ELSE ParseDigits(text)

(* The range of int32, the kind of Runtime *)
MinInt32 == (0 - 2147483647) - 1
MaxInt32 == 2147483647

(* encoding/json decoding the runtime member into a data.Runtime field.    *)
(* Runtime has no UnmarshalJSON, so the rule for its kind, int32, applies: *)
(* an integer literal in range is stored, any other value is an error; a   *)
(* member that is absent leaves the field at 0                             *)
DecodeRuntime(text) ==
    IF text = NoMember THEN [ok |-> TRUE, value |-> 0]
    ELSE IF IsIntegerLiteral(text) /\ ParseInt(text) >= MinInt32
               /\ ParseInt(text) <= MaxInt32
    THEN [ok |-> TRUE, value |-> ParseInt(text)]
    ELSE [ok |-> FALSE, value |-> 0]

-----------------------------------------------------------------------------
(* Callers of the repository.  In Spec every statement is answered by the  *)
(* backend within the timeout; the handlers of SpecAPI also meet a backend *)
(* that fails.                                                             *)

(* A step that makes no repository call, one that writes no response *)
NoCall == [op |-> "none", err |-> ErrNone, trips |-> 0, rows |-> <<>>]

NoResp == 0

(* An http.ResponseWriter nothing has been written to: no header set, no  *)
(* status sent, no write to the body                                       *)
NoHeaders == <<>>
NoWrites == [headers |-> NoHeaders, status |-> NoResp, body |-> <<>>]

(* A step outside any request *)
NoHandler == "none"

(* What makes a handler return before it calls the repository *)
NotRejected == "none"
InvalidId == "invalid id parameter"
BadBody == "body not decoded"
InvalidMovie == "failed validation"

(* No statement waiting *)
NoCtx == [op |-> "none", elapsed |-> 0]

(* What a call by p leaves behind: the store, the record of the call, and  *)
(* m in p's movie variable                                                 *)
Effects(p, op, id, o, m) ==
    /\ table' = o.table
    /\ seq' = o.seq
    /\ deleted' = IF op = "Delete" /\ o.err = ErrNone
                  THEN deleted \cup {id} ELSE deleted
    /\ movie' = [movie EXCEPT ![p] = m]
    /\ call' = [op |-> op, err |-> o.err, trips |-> o.trips, rows |-> o.rows]
    /\ rejected' = NotRejected
    /\ UNCHANGED <<errors, wire>>

(* A call whose statement the backend executes or fails in the same step *)
Calls(p, op, id, o, m) ==
    /\ Effects(p, op, id, o, m)
    /\ UNCHANGED ctx

(* A call outside a request: the caller keeps the movie the method left it *)
Returns(p, op, id, o) ==
    /\ Calls(p, op, id, o, o.movie)
    /\ UNCHANGED pc
    /\ resp' = NoResp
    /\ written' = NoWrites
    /\ handler' = NoHandler

(* p builds a movie with content c and inserts it *)
InsertOf(p, c) ==
    /\ seq < MaxId
    /\ Returns(p, "Insert", 0, Insert(WithContent(ZeroMovie, c), TRUE))

CallInsert(p) == \E c \in Contents : InsertOf(p, c)

(* p fetches a movie: movie, err := Get(id) *)
GetOf(p, id) == Returns(p, "Get", id, Get(id, TRUE))

CallGet(p) == \E id \in IdArgs : GetOf(p, id)

(* The struct p works on: the movie it holds, or a fresh one that was      *)
(* never inserted                                                          *)
Held(p) == IF movie[p] = NilMovie THEN ZeroMovie ELSE movie[p]

(* p gives the struct it works on the content c and updates it *)
UpdateOf(p, c) ==
    /\ Held(p).Version < MaxVersion
    /\ Returns(p, "Update", Held(p).ID, Update(WithContent(Held(p), c), TRUE))

CallUpdate(p) == \E c \in Contents : UpdateOf(p, c)

(* p deletes by id *)
DeleteOf(p, id) == Returns(p, "Delete", id, Delete(id, movie[p], TRUE))

CallDelete(p) == \E id \in IdArgs : DeleteOf(p, id)

(* p lists the table *)
CallGetAll(p) == Returns(p, "GetAll", 0, GetAll(movie[p], TRUE))

Init ==
    /\ table = {}
    /\ seq = 0
    /\ deleted = {}
    /\ movie = [p \in Procs |-> NilMovie]
    /\ call = NoCall
    /\ pc = [p \in Procs |-> "idle"]
    /\ resp = NoResp
    /\ rejected = NotRejected
    /\ handler = NoHandler
    /\ errors = NoErrors
    /\ wire = NoMember
    /\ ctx = [p \in Procs |-> NoCtx]
    /\ written = NoWrites

Next ==
    \E p \in Procs :
        \/ CallInsert(p)
        \/ CallGet(p)
        \/ CallUpdate(p)
        \/ CallDelete(p)
        \/ CallGetAll(p)

Spec == Init /\ [][Next]_vars

-----------------------------------------------------------------------------
(* HTTP requests and responses *)

StatusOK == 200
StatusCreated == 201
badRequestResponse == 400
notFoundResponse == 404
editConflictResponse == 409
failedValidationResponse == 422
serverErrorResponse == 500

(* The :id URL parameter: the decimal text of a number, or other text *)
IdParams ==
    {[numeric |-> TRUE, value |-> i] : i \in IdArgs}
        \cup {[numeric |-> FALSE, value |-> 0]}

(* app.readIDParam: <<id, ok>> *)
readIDParam(param) ==
    IF ~param.numeric \/ param.value < 1
    THEN <<0, FALSE>>
    ELSE <<param.value, TRUE>>

(* Values request bodies carry *)
BodyTitles == {"", "Alien"}
BodyYears == {0, 1979}
BodyRuntimes == {0, 117}
BodyGenres ==
    { NilSlice, <<>>, <<"horror">>, <<"drama", "war">>, <<"war", "war">>,
      <<"a", "b", "c", "d", "e", "f">> }

(* A body that readJSON rejects *)
Malformed == [malformed |-> TRUE]

(* A body that passes validation *)
ValidBody ==
    [Title |-> "Alien", Year |-> 1979, Runtime |-> 117,
     Genres |-> <<"horror">>]

BodyFields == {"Title", "Year", "Runtime", "Genres"}

BodyValues(field) ==
    CASE field = "Title" -> BodyTitles
      [] field = "Year" -> BodyYears
      [] field = "Runtime" -> BodyRuntimes
      [] field = "Genres" -> BodyGenres

(* Bodies of POST /v1/movies as decoded into createMovieHandler's input:   *)
(* a key that is absent leaves the field at its zero value.  The bodies    *)
(* are {} and the valid body with one field given each of its values.      *)
CreateBodies ==
    {[Title |-> "", Year |-> 0, Runtime |-> 0, Genres |-> NilSlice]}
        \cup UNION {{[ValidBody EXCEPT ![f] = v] : v \in BodyValues(f)} :
                      f \in BodyFields}

(* Bodies of the update request as decoded into updateMovieHandler's input *)
(* of pointers: the record has the keys that were present, which are none, *)
(* one or all of the fields                                                *)
PresentFields == {{}, BodyFields} \cup {{f} : f \in BodyFields}

UpdateBodies ==
    {[k \in present |-> full[k]] : full \in CreateBodies,
                                   present \in PresentFields}

(* json.MarshalIndent of a *Movie: created_at is left out, year, runtime  *)
(* and genres are left out when empty, the runtime is written by           *)
(* Runtime.MarshalJSON, and a nil pointer is written as null               *)
MarshalMovie(m) ==
    IF m = NilMovie
    THEN [null |-> TRUE]
    ELSE LET members ==
                 {"id", "title", "version"}
                    \cup (IF m.Year # 0 THEN {"year"} ELSE {})
                    \cup (IF m.Runtime # 0 THEN {"runtime"} ELSE {})
                    \cup (IF SliceLen(m.Genres) # 0 THEN {"genres"} ELSE {})
         IN  [k \in members |->
                 CASE k = "id" -> m.ID
                   [] k = "title" -> m.Title
                   [] k = "year" -> m.Year
                   [] k = "runtime" -> EncodeRuntime(m.Runtime)
                   [] k = "genres" -> m.Genres
                   [] k = "version" -> m.Version]

(* w.WriteHeader(status): the first status sent is the response's status *)
WriteHeader(w, status) ==
    IF w.status = NoResp THEN [w EXCEPT !.status = status] ELSE w

(* w.Write(data): the data follows what the body already holds; the status *)
(* is 200 when none was sent before                                        *)
Write(w, data) ==
    [WriteHeader(w, StatusOK) EXCEPT !.body = Append(@, data)]

(* app.writeJSON(w, status, data, headers), the envelope encoded *)
writeJSON(w, status, data, headers) ==
    LET set == [w EXCEPT !.headers =
                   ("Content-Type" :> <<"application/json">>)
                      @@ headers @@ w.headers]
    IN  Write(WriteHeader(set, status), data)

(* The error responses: an envelope with the error, sent with the status *)
errorResponse(w, status) ==
    writeJSON(w, status, [error |-> status], NoHeaders)

(* fmt.Sprintf("/v1/movies/%d", id) as the value of the Location header *)
Location(id) == "Location" :> (<<"/v1/movies/">> \o FormatInt(id))

(* fmt.Fprintf(w, "%+v\n", input): the fields of the decoded input *)
Fprintf(w, input) == Write(w, [dump |-> input])

(* A request ends: this is what the handler wrote, and it returns *)
Answers(p, status, w) ==
    /\ resp' = status
    /\ pc' = [pc EXCEPT ![p] = "idle"]
    /\ written' = w

(* A request ends with one of the error responses *)
Responds(p, status) == Answers(p, status, errorResponse(NoWrites, status))

(* The response with the status a handler's switch chose: the envelope     *)
(* with a success status, an error response otherwise                      *)
Switch(p, status, data) ==
    Answers(p, status,
            IF status \in {StatusOK, StatusCreated}
            THEN writeJSON(NoWrites, status, data, NoHeaders)
            ELSE errorResponse(NoWrites, status))

(* A handler step that returns before any repository call *)
Skips(why) ==
    /\ UNCHANGED <<table, seq, deleted, errors, wire, ctx>>
    /\ call' = NoCall
    /\ rejected' = why

(* createMovieHandler with the insert moved before the validation *)
createMovieHandlerInsertsFirst(p, body) ==
    /\ pc[p] = "idle"
    /\ handler' = "create"
    /\ IF body = Malformed
       THEN /\ Responds(p, badRequestResponse)
            /\ Skips(BadBody) /\ UNCHANGED movie
       ELSE LET m == WithContent(ZeroMovie, body)
            IN  /\ seq < MaxMovies
                /\ \E answered \in BOOLEAN :
                     LET o == Insert(m, answered)
                     IN  /\ table' = o.table
                         /\ seq' = o.seq
                         /\ UNCHANGED <<deleted, movie, errors, wire, ctx>>
                         /\ call' = [op |-> "Insert", err |-> o.err,
                                     trips |-> o.trips, rows |-> o.rows]
                         /\ rejected' = IF Valid(ValidateMovie(m))
                                        THEN NotRejected ELSE InvalidMovie
                         /\ Switch(p,
                              CASE o.err # ErrNone -> serverErrorResponse
                                [] ~Valid(ValidateMovie(m)) ->
                                     failedValidationResponse
                                [] OTHER -> StatusCreated,
                              [movie |-> MarshalMovie(o.movie)])

(* createMovieHandler serving a request with this body *)
createMovieHandlerOf(p, body) ==
    /\ pc[p] = "idle"
    /\ handler' = "create"
    /\ IF body = Malformed
       THEN /\ Responds(p, badRequestResponse)
            /\ Skips(BadBody) /\ UNCHANGED movie
       ELSE LET m == WithContent(ZeroMovie, body)
            IN  IF ~Valid(ValidateMovie(m))
                THEN /\ Responds(p, failedValidationResponse)
                     /\ Skips(InvalidMovie) /\ UNCHANGED movie
                ELSE /\ seq < MaxMovies
                     /\ \E answered \in BOOLEAN :
                          LET o == Insert(m, answered)
                          IN  /\ Calls(p, "Insert", 0, o, NilMovie)
                              /\ IF o.err # ErrNone
                                 THEN Responds(p, serverErrorResponse)
                                 ELSE Answers(p, StatusCreated,
                                        Fprintf(
                                          writeJSON(NoWrites, StatusCreated,
                                            [movie |-> MarshalMovie(o.movie)],
                                            Location(o.movie.ID)),
                                          body))

createMovieHandler(p) ==
    \E body \in CreateBodies \cup {Malformed} : createMovieHandlerOf(p, body)

(* showMovieHandler serving a request with this :id *)
showMovieHandlerOf(p, param) ==
    /\ pc[p] = "idle"
    /\ handler' = "show"
    /\ LET id == readIDParam(param)
       IN  IF ~id[2]
           THEN /\ Responds(p, notFoundResponse)
                /\ Skips(InvalidId) /\ UNCHANGED movie
           ELSE \E answered \in BOOLEAN :
                  LET o == Get(id[1], answered)
                  IN  /\ Calls(p, "Get", id[1], o, NilMovie)
                      /\ Switch(p, CASE o.err = ErrNone -> StatusOK
                                     [] o.err = ErrRecordNotFound ->
                                          notFoundResponse
                                     [] OTHER -> serverErrorResponse,
                                [movie |-> MarshalMovie(o.movie)])

showMovieHandler(p) == \E param \in IdParams : showMovieHandlerOf(p, param)

(* updateMovieHandler, up to the movie it fetched *)
updateMovieHandlerGetOf(p, param) ==
    /\ pc[p] = "idle"
    /\ handler' = "update"
    /\ LET id == readIDParam(param)
       IN  IF ~id[2]
           THEN /\ Responds(p, notFoundResponse)
                /\ Skips(InvalidId) /\ UNCHANGED movie
           ELSE \E answered \in BOOLEAN :
                  LET o == Get(id[1], answered)
                  IN  IF o.err # ErrNone
                      THEN /\ Calls(p, "Get", id[1], o, NilMovie)
                           /\ Responds(p, IF o.err = ErrRecordNotFound
                                          THEN notFoundResponse
                                          ELSE serverErrorResponse)
                      ELSE /\ Calls(p, "Get", id[1], o, o.movie)
                           /\ pc' = [pc EXCEPT ![p] = "update"]
                           /\ resp' = NoResp
                           /\ written' = NoWrites

updateMovieHandlerGet(p) ==
    \E param \in IdParams : updateMovieHandlerGetOf(p, param)

(* The merge with the copy of the year left out *)
MergeForgetsYear(m, body) ==
    [m EXCEPT
       !.Title = IF "Title" \in DOMAIN body THEN body.Title ELSE @,
       !.Runtime = IF "Runtime" \in DOMAIN body THEN body.Runtime ELSE @,
       !.Genres = IF "Genres" \in DOMAIN body /\ body.Genres # NilSlice
                  THEN body.Genres ELSE @]

(* The fetched movie with the fields the body carries *)
Merge(m, body) ==
    [m EXCEPT
       !.Title = IF "Title" \in DOMAIN body THEN body.Title ELSE @,
       !.Year = IF "Year" \in DOMAIN body THEN body.Year ELSE @,
       !.Runtime = IF "Runtime" \in DOMAIN body THEN body.Runtime ELSE @,
       !.Genres = IF "Genres" \in DOMAIN body /\ body.Genres # NilSlice
                  THEN body.Genres ELSE @]

(* updateMovieHandler without the case for ErrEditConflict: every error of *)
(* Update is answered as a server error                                    *)
updateMovieHandlerWriteNoConflictCase(p, body) ==
    /\ pc[p] = "update"
    /\ handler' = "update"
    /\ IF body = Malformed
       THEN /\ Responds(p, badRequestResponse)
            /\ movie' = [movie EXCEPT ![p] = NilMovie]
            /\ Skips(BadBody)
       ELSE LET m == Merge(movie[p], body)
            IN  IF ~Valid(ValidateMovie(m))
                THEN /\ Responds(p, failedValidationResponse)
                     /\ movie' = [movie EXCEPT ![p] = NilMovie]
                     /\ Skips(InvalidMovie)
                ELSE /\ m.Version < MaxVersion
                     /\ \E answered \in BOOLEAN :
                          LET o == Update(m, answered)
                          IN  /\ Calls(p, "Update", m.ID, o, NilMovie)
                              /\ Switch(p, IF o.err = ErrNone
                                           THEN StatusOK
                                           ELSE serverErrorResponse,
                                        [movie |-> MarshalMovie(o.movie)])

(* updateMovieHandler with the update moved before the validation *)
updateMovieHandlerWriteValidatesLate(p, body) ==
    /\ pc[p] = "update"
    /\ handler' = "update"
    /\ IF body = Malformed
       THEN /\ Responds(p, badRequestResponse)
            /\ movie' = [movie EXCEPT ![p] = NilMovie]
            /\ Skips(BadBody)
       ELSE LET m == Merge(movie[p], body)
            IN  /\ m.Version < MaxVersion
                /\ \E answered \in BOOLEAN :
                     LET o == Update(m, answered)
                     IN  /\ table' = o.table
                         /\ seq' = o.seq
                         /\ UNCHANGED <<deleted, errors, wire, ctx>>
                         /\ movie' = [movie EXCEPT ![p] = NilMovie]
                         /\ call' = [op |-> "Update", err |-> o.err,
                                     trips |-> o.trips, rows |-> o.rows]
                         /\ rejected' = IF Valid(ValidateMovie(m))
                                        THEN NotRejected ELSE InvalidMovie
                         /\ Switch(p,
                              CASE ~Valid(ValidateMovie(m)) ->
                                     failedValidationResponse
                                [] o.err = ErrNone -> StatusOK
                                [] o.err = ErrEditConflict ->
                                     editConflictResponse
                                [] OTHER -> serverErrorResponse,
                              [movie |-> MarshalMovie(o.movie)])

(* updateMovieHandler, from reading the body to the response *)
updateMovieHandlerWriteOf(p, body) ==
    /\ pc[p] = "update"
    /\ handler' = "update"
    /\ IF body = Malformed
       THEN /\ Responds(p, badRequestResponse)
            /\ movie' = [movie EXCEPT ![p] = NilMovie]
            /\ Skips(BadBody)
       ELSE LET m == Merge(movie[p], body)
            IN  IF ~Valid(ValidateMovie(m))
                THEN /\ Responds(p, failedValidationResponse)
                     /\ movie' = [movie EXCEPT ![p] = NilMovie]
                     /\ Skips(InvalidMovie)
                ELSE /\ m.Version < MaxVersion
                     /\ \E answered \in BOOLEAN :
                          LET o == Update(m, answered)
                          IN  /\ Calls(p, "Update", m.ID, o, NilMovie)
                              /\ Switch(p,
                                   CASE o.err = ErrNone -> StatusOK
                                     [] o.err = ErrEditConflict ->
                                          editConflictResponse
                                     [] OTHER -> serverErrorResponse,
                                   [movie |-> MarshalMovie(o.movie)])

updateMovieHandlerWrite(p) ==
    \E body \in UpdateBodies \cup {Malformed} :
       updateMovieHandlerWriteOf(p, body)

(* deleteMovieHandler serving a request with this :id *)
deleteMovieHandlerOf(p, param) ==
    /\ pc[p] = "idle"
    /\ handler' = "delete"
    /\ LET id == readIDParam(param)
       IN  IF ~id[2]
           THEN /\ Responds(p, notFoundResponse)
                /\ Skips(InvalidId) /\ UNCHANGED movie
           ELSE \E answered \in BOOLEAN :
                  LET o == Delete(id[1], movie[p], answered)
                  IN  /\ Calls(p, "Delete", id[1], o, NilMovie)
                      /\ Switch(p, CASE o.err = ErrNone -> StatusOK
                                     [] o.err = ErrRecordNotFound ->
                                          notFoundResponse
                                     [] OTHER -> serverErrorResponse,
                                [message |-> "movie successfully deleted"])

deleteMovieHandler(p) ==
    \E param \in IdParams : deleteMovieHandlerOf(p, param)

NextAPI ==
    \E p \in Procs :
        \/ createMovieHandler(p)
        \/ showMovieHandler(p)
        \/ updateMovieHandlerGet(p)
        \/ updateMovieHandlerWrite(p)
        \/ deleteMovieHandler(p)

SpecAPI == Init /\ [][NextAPI]_vars

-----------------------------------------------------------------------------
(* Requests on the movies that were created: clients take the id from the *)
(* Location header of a create request                                    *)

(* The :id of the movie with this id *)
ParamOf(id) == [numeric |-> TRUE, value |-> id]

NextCreated ==
    \E p \in Procs :
        \/ createMovieHandler(p)
        \/ \E id \in 1 .. seq : showMovieHandlerOf(p, ParamOf(id))
        \/ \E id \in 1 .. seq : updateMovieHandlerGetOf(p, ParamOf(id))
        \/ updateMovieHandlerWrite(p)
        \/ \E id \in 1 .. seq : deleteMovieHandlerOf(p, ParamOf(id))

SpecCreated == Init /\ [][NextCreated]_vars

-----------------------------------------------------------------------------
(* Update requests with every combination of fields, on a stored movie *)

(* A second valid body, every field of which differs from ValidBody's *)
OtherBody ==
    [Title |-> "Casablanca", Year |-> 1942, Runtime |-> 102,
     Genres |-> <<"drama", "war">>]

(* Update bodies with any of the fields present, and one whose genres are  *)
(* null                                                                    *)
PatchBodies ==
    {[k \in present |-> full[k]] : full \in {ValidBody, OtherBody},
                                   present \in SUBSET BodyFields}
        \cup {[Genres |-> NilSlice]}

(* The movie of a create request with ValidBody has been stored *)
InitPatch ==
    /\ table = {[id |-> 1, created_at |-> 10, title |-> ValidBody.Title,
                 year |-> ValidBody.Year, runtime |-> ValidBody.Runtime,
                 genres |-> ValidBody.Genres, version |-> DefaultVersion]}
    /\ seq = 1
    /\ deleted = {}
    /\ movie = [p \in Procs |-> NilMovie]
    /\ call = [op |-> "Insert", err |-> ErrNone, trips |-> 1, rows |-> <<>>]
    /\ pc = [p \in Procs |-> "idle"]
    /\ resp = StatusCreated
    /\ rejected = NotRejected
    /\ handler = "create"
    /\ errors = NoErrors
    /\ wire = NoMember
    /\ ctx = [p \in Procs |-> NoCtx]
    /\ written =
          Fprintf(writeJSON(NoWrites, StatusCreated,
                            [movie |-> MarshalMovie(
                               [ID |-> 1, CreatedAt |-> 10,
                                Title |-> ValidBody.Title,
                                Year |-> ValidBody.Year,
                                Runtime |-> ValidBody.Runtime,
                                Genres |-> ValidBody.Genres,
                                Version |-> DefaultVersion])],
                            Location(1)),
                  ValidBody)

NextPatch ==
    \E p \in Procs :
        \/ \E param \in IdParams : updateMovieHandlerGetOf(p, param)
        \/ \E body \in PatchBodies : updateMovieHandlerWriteOf(p, body)

SpecPatch == InitPatch /\ [][NextPatch]_vars

-----------------------------------------------------------------------------
(* MockMovieModel: the repository that does nothing *)

(* A mock Get that has the id < 1 short cut of MovieModel.Get *)
MockGetNotFound(id) ==
    IF id < 1
    THEN Outcome(table, seq, NilMovie, ErrRecordNotFound, 0, <<>>)
    ELSE Outcome(table, seq, NilMovie, ErrNone, 0, <<>>)

(* MockMovieModel.Insert(movie) *)
MockInsert(m) == Outcome(table, seq, m, ErrNone, 0, <<>>)

(* MockMovieModel.Get(id) *)
MockGet(id) == Outcome(table, seq, NilMovie, ErrNone, 0, <<>>)

(* MockMovieModel.Update(movie) *)
MockUpdate(m) == Outcome(table, seq, m, ErrNone, 0, <<>>)

(* MockMovieModel.Delete(id).  m is the caller's movie *)
MockDelete(id, m) == Outcome(table, seq, m, ErrNone, 0, <<>>)

(* Movies callers pass to the mock: never stored, or copies of stored ones *)
MockMovies ==
    {[WithContent(ZeroMovie, c) EXCEPT !.ID = i, !.Version = v] :
        c \in Contents, i \in {0, 1}, v \in {0, 1}}

(* A call of a mock method by p *)
MockReturns(p, op, o) ==
    /\ table' = o.table
    /\ seq' = o.seq
    /\ UNCHANGED <<deleted, pc, errors, wire, ctx>>
    /\ movie' = [movie EXCEPT ![p] = o.movie]
    /\ call' = [op |-> op, err |-> o.err, trips |-> o.trips, rows |-> o.rows]
    /\ resp' = NoResp
    /\ written' = NoWrites
    /\ rejected' = NotRejected
    /\ handler' = NoHandler

MockInsertOf(p, m) == MockReturns(p, "Insert", MockInsert(m))

MockGetOf(p, id) == MockReturns(p, "Get", MockGet(id))

MockUpdateOf(p, m) == MockReturns(p, "Update", MockUpdate(m))

MockDeleteOf(p, id) == MockReturns(p, "Delete", MockDelete(id, movie[p]))

NextMock ==
    \E p \in Procs :
        \/ \E m \in MockMovies : MockInsertOf(p, m)
        \/ \E id \in IdArgs : MockGetOf(p, id)
        \/ \E m \in MockMovies : MockUpdateOf(p, m)
        \/ \E id \in IdArgs : MockDeleteOf(p, id)

SpecMock == Init /\ [][NextMock]_vars

-----------------------------------------------------------------------------
(* The handlers of an application built with NewMockModels() *)

(* The run-time panic of reading or writing a field through a nil *Movie *)
NilDereference == "nil pointer dereference"

(* A handler's call of a method of the mock *)
MockCalls(p, op, o, m) ==
    /\ table' = o.table
    /\ seq' = o.seq
    /\ UNCHANGED <<deleted, errors, wire, ctx>>
    /\ movie' = [movie EXCEPT ![p] = m]
    /\ call' = [op |-> op, err |-> o.err, trips |-> o.trips, rows |-> o.rows]
    /\ rejected' = NotRejected

(* The handler's goroutine panics.  recovered: a middleware of the routes  *)
(* recovers the panic and sends the server error response; otherwise       *)
(* net/http recovers it and closes the connection with nothing written     *)
Panics(p, why, recovered) ==
    /\ Skips(why)
    /\ movie' = [movie EXCEPT ![p] = NilMovie]
    /\ IF recovered
       THEN Responds(p, serverErrorResponse)
       ELSE Answers(p, NoResp, NoWrites)

(* createMovieHandler over the mock *)
createMovieHandlerOnMock(p, body) ==
    /\ pc[p] = "idle"
    /\ handler' = "create"
    /\ IF body = Malformed
       THEN /\ Responds(p, badRequestResponse)
            /\ Skips(BadBody) /\ UNCHANGED movie
       ELSE LET m == WithContent(ZeroMovie, body)
            IN  IF ~Valid(ValidateMovie(m))
                THEN /\ Responds(p, failedValidationResponse)
                     /\ Skips(InvalidMovie) /\ UNCHANGED movie
                ELSE LET o == MockInsert(m)
                     IN  /\ MockCalls(p, "Insert", o, NilMovie)
                         /\ IF o.err # ErrNone
                            THEN Responds(p, serverErrorResponse)
                            ELSE Answers(p, StatusCreated,
                                   Fprintf(
                                     writeJSON(NoWrites, StatusCreated,
                                       [movie |-> MarshalMovie(o.movie)],
                                       Location(o.movie.ID)),
                                     body))

(* showMovieHandler over the mock *)
showMovieHandlerOnMock(p, param) ==
    /\ pc[p] = "idle"
    /\ handler' = "show"
    /\ LET id == readIDParam(param)
       IN  IF ~id[2]
           THEN /\ Responds(p, notFoundResponse)
                /\ Skips(InvalidId) /\ UNCHANGED movie
           ELSE LET o == MockGet(id[1])
                IN  /\ MockCalls(p, "Get", o, NilMovie)
                    /\ Switch(p, CASE o.err = ErrNone -> StatusOK
                                   [] o.err = ErrRecordNotFound ->
                                        notFoundResponse
                                   [] OTHER -> serverErrorResponse,
                              [movie |-> MarshalMovie(o.movie)])

(* updateMovieHandler over the mock, up to the movie it fetched *)
updateMovieHandlerGetOnMock(p, param) ==
    /\ pc[p] = "idle"
    /\ handler' = "update"
    /\ LET id == readIDParam(param)
       IN  IF ~id[2]
           THEN /\ Responds(p, notFoundResponse)
                /\ Skips(InvalidId) /\ UNCHANGED movie
           ELSE LET o == MockGet(id[1])
                IN  IF o.err # ErrNone
                    THEN /\ MockCalls(p, "Get", o, NilMovie)
                         /\ Responds(p, IF o.err = ErrRecordNotFound
                                        THEN notFoundResponse
                                        ELSE serverErrorResponse)
                    ELSE /\ MockCalls(p, "Get", o, o.movie)
                         /\ pc' = [pc EXCEPT ![p] = "update"]
                         /\ resp' = NoResp
                         /\ written' = NoWrites

(* updateMovieHandler over the mock, from reading the body on: the copy    *)
(* of a field of the body into the movie, and ValidateMovie when the body  *)
(* has no field, go through the movie pointer                              *)
updateMovieHandlerWriteOnMock(p, body) ==
    /\ pc[p] = "update"
    /\ handler' = "update"
    /\ IF body = Malformed
       THEN /\ Responds(p, badRequestResponse)
            /\ movie' = [movie EXCEPT ![p] = NilMovie]
            /\ Skips(BadBody)
       ELSE IF movie[p] = NilMovie
            THEN \E recovered \in BOOLEAN :
                    Panics(p, NilDereference, recovered)
            ELSE LET m == Merge(movie[p], body)
                 IN  IF ~Valid(ValidateMovie(m))
                     THEN /\ Responds(p, failedValidationResponse)
                          /\ movie' = [movie EXCEPT ![p] = NilMovie]
                          /\ Skips(InvalidMovie)
                     ELSE LET o == MockUpdate(m)
                          IN  /\ MockCalls(p, "Update", o, NilMovie)
                              /\ Switch(p,
                                   CASE o.err = ErrNone -> StatusOK
                                     [] o.err = ErrEditConflict ->
                                          editConflictResponse
                                     [] OTHER -> serverErrorResponse,
                                   [movie |-> MarshalMovie(o.movie)])

(* deleteMovieHandler over the mock *)
deleteMovieHandlerOnMock(p, param) ==
    /\ pc[p] = "idle"
    /\ handler' = "delete"
    /\ LET id == readIDParam(param)
       IN  IF ~id[2]
           THEN /\ Responds(p, notFoundResponse)
                /\ Skips(InvalidId) /\ UNCHANGED movie
           ELSE LET o == MockDelete(id[1], movie[p])
                IN  /\ MockCalls(p, "Delete", o, NilMovie)
                    /\ Switch(p, CASE o.err = ErrNone -> StatusOK
                                   [] o.err = ErrRecordNotFound ->
                                        notFoundResponse
                                   [] OTHER -> serverErrorResponse,
                              [message |-> "movie successfully deleted"])

(* Bodies of the create requests sent to the mock: those of CreateBodies   *)
(* and the valid bodies that mix the fields of ValidBody and OtherBody     *)
MockCreateBodies ==
    CreateBodies \cup
       [Title : {ValidBody.Title, OtherBody.Title},
        Year : {ValidBody.Year, OtherBody.Year},
        Runtime : {ValidBody.Runtime, OtherBody.Runtime},
        Genres : {ValidBody.Genres, OtherBody.Genres,
                  <<"drama", "romance", "war">>, <<"horror", "war">>}]

NextMockAPI ==
    \E p \in Procs :
        \/ \E body \in MockCreateBodies \cup {Malformed} :
              createMovieHandlerOnMock(p, body)
        \/ \E param \in IdParams : showMovieHandlerOnMock(p, param)
        \/ \E param \in IdParams : updateMovieHandlerGetOnMock(p, param)
        \/ \E body \in UpdateBodies \cup {Malformed} :
              updateMovieHandlerWriteOnMock(p, body)
        \/ \E param \in IdParams : deleteMovieHandlerOnMock(p, param)

SpecMockAPI == Init /\ [][NextMockAPI]_vars

-----------------------------------------------------------------------------
(* ValidateMovie applied to movies of every shape *)

ValidateTitles == {"", "Alien", LongTitle}
ValidateYears == {0, MinYear - 1, MinYear, CurrentYear, CurrentYear + 1}
ValidateRuntimes == {-1, 0, 102}

(* The movies a caller validates *)
ValidateInputs ==
    {[ZeroMovie EXCEPT !.Title = t, !.Year = y, !.Runtime = r, !.Genres = g] :
        t \in ValidateTitles, y \in ValidateYears, r \in ValidateRuntimes,
        g \in BodyGenres}

(* The caller that validates *)
Validating == CHOOSE p \in Procs : TRUE

(* v := validator.New(); data.ValidateMovie(v, movie) *)
ValidateOf(p, m) ==
    /\ movie' = [movie EXCEPT ![p] = m]
    /\ errors' = ValidateMovie(m)
    /\ call' = NoCall
    /\ resp' = NoResp
    /\ written' = NoWrites
    /\ rejected' = IF Valid(errors') THEN NotRejected ELSE InvalidMovie
    /\ handler' = NoHandler
    /\ UNCHANGED <<table, seq, deleted, pc, wire, ctx>>

NextValidate == \E m \in ValidateInputs : ValidateOf(Validating, m)

SpecValidate == Init /\ [][NextValidate]_vars

-----------------------------------------------------------------------------
(* The runtime of a movie written as JSON and read back by a create      *)
(* request                                                                 *)

CodecRuntimes == {-1, 0, 1, 5, 90, 102, 117, 180}

(* writeJSON(w, status, envelope{"movie": movie}, headers) for a movie     *)
(* with runtime r: the runtime member of the text it writes                *)
EncodeOf(r) ==
    /\ wire' = EncodeRuntime(r)
    /\ call' = NoCall
    /\ resp' = NoResp
    /\ written' = NoWrites
    /\ rejected' = NotRejected
    /\ handler' = NoHandler
    /\ UNCHANGED <<table, seq, deleted, movie, pc, errors, ctx>>

(* A client types the runtime as a bare number *)
ClientWritesOf(n) ==
    /\ wire' = FormatInt(n)
    /\ call' = NoCall
    /\ resp' = NoResp
    /\ written' = NoWrites
    /\ rejected' = NotRejected
    /\ handler' = NoHandler
    /\ UNCHANGED <<table, seq, deleted, movie, pc, errors, ctx>>

(* createMovieHandler's input after readJSON decoded a body whose runtime  *)
(* member is text, the other members being those of the valid body         *)
BodyWithRuntime(text) ==
    LET d == DecodeRuntime(text)
    IN  IF d.ok THEN [ValidBody EXCEPT !.Runtime = d.value] ELSE Malformed

NextCodec ==
    \/ \E r \in CodecRuntimes : EncodeOf(r)
    \/ \E n \in CodecRuntimes : ClientWritesOf(n)
    \/ \E p \in Procs : createMovieHandlerOf(p, BodyWithRuntime(wire))

SpecCodec == Init /\ [][NextCodec]_vars

-----------------------------------------------------------------------------
(* The repository methods with the time their statement waits.  Each     *)
(* method creates a context with a 3 second deadline and hands it to       *)
(* QueryRowContext, ExecContext or QueryContext, which returns when the    *)
(* backend has answered or when the deadline has passed.                   *)

(* context.WithTimeout(context.Background(), 3*time.Second), in seconds *)
Timeout == 3

Methods == {"Insert", "Get", "Update", "Delete", "GetAll"}

(* A call that ends before its context is created *)
NeverWaits(op, id) == op \in {"Get", "Delete"} /\ id < 1

(* What the method op returns to p, called with id or content c *)
Result(p, op, id, c, answered) ==
    CASE op = "Insert" -> Insert(WithContent(ZeroMovie, c), answered)
      [] op = "Get" -> Get(id, answered)
      [] op = "Update" -> Update(WithContent(Held(p), c), answered)
      [] op = "Delete" -> Delete(id, movie[p], answered)
      [] op = "GetAll" -> GetAll(movie[p], answered)

(* The id the call is about *)
IdOf(p, op, id) == IF op = "Update" THEN Held(p).ID ELSE id

(* p's call returns *)
Ends(p, op, id, o) ==
    /\ Effects(p, op, IdOf(p, op, id), o, o.movie)
    /\ ctx' = [ctx EXCEPT ![p] = NoCtx]
    /\ UNCHANGED pc
    /\ resp' = NoResp
    /\ written' = NoWrites
    /\ handler' = NoHandler

(* A step in which no call returns *)
Waits ==
    /\ call' = NoCall
    /\ resp' = NoResp
    /\ written' = NoWrites
    /\ rejected' = NotRejected
    /\ handler' = NoHandler
    /\ UNCHANGED <<table, seq, deleted, movie, pc, errors, wire>>

(* Get or Delete with an id below 1 returns at once *)
ShortCircuitOf(p, op, id) ==
    /\ ctx[p] = NoCtx
    /\ NeverWaits(op, id)
    /\ Ends(p, op, id, Result(p, op, id, CHOOSE c \in Contents : TRUE, TRUE))

(* p calls op: the context is created and the statement is handed over *)
BeginOf(p, op) ==
    /\ ctx[p] = NoCtx
    /\ ctx' = [ctx EXCEPT ![p] = [op |-> op, elapsed |-> 0]]
    /\ Waits

(* A second passes for p's context *)
Tick(p) ==
    /\ ctx[p] # NoCtx
    /\ ctx[p].elapsed < Timeout
    /\ ctx' = [ctx EXCEPT ![p].elapsed = @ + 1]
    /\ Waits

(* The backend executes p's statement before the deadline *)
AnswerOf(p, id, c) ==
    /\ ctx[p] # NoCtx
    /\ ctx[p].elapsed < Timeout
    /\ id >= 1
    /\ ctx[p].op = "Insert" => seq < MaxMovies
    /\ ctx[p].op = "Update" => Held(p).Version < MaxVersion
    /\ Ends(p, ctx[p].op, id, Result(p, ctx[p].op, id, c, TRUE))

(* The call that never returns: the statement goes on waiting *)
ExpireNever(p) ==
    /\ FALSE
    /\ UNCHANGED vars

(* The deadline has passed: the statement is abandoned and the method      *)
(* returns the context's error                                             *)
Expire(p) ==
    /\ ctx[p] # NoCtx
    /\ ctx[p].elapsed = Timeout
    /\ \E c \in Contents :
          Ends(p, ctx[p].op, 1, Result(p, ctx[p].op, 1, c, FALSE))

(* The caller whose calls are followed through their wait; what other    *)
(* callers do to the pool and the backend shows as a statement that is     *)
(* answered late or not at all                                             *)
TimedCaller == CHOOSE p \in Procs : TRUE

NextTimeout ==
    \/ \E op \in Methods, id \in IdArgs : ShortCircuitOf(TimedCaller, op, id)
    \/ \E op \in Methods : BeginOf(TimedCaller, op)
    \/ Tick(TimedCaller)
    \/ \E id \in IdArgs, c \in Contents : AnswerOf(TimedCaller, id, c)
    \/ Expire(TimedCaller)

(* Time passes, and a context whose deadline has passed ends the call *)
SpecTimeout ==
    /\ Init
    /\ [][NextTimeout]_vars
    /\ WF_vars(Tick(TimedCaller))
    /\ WF_vars(Expire(TimedCaller))

-----------------------------------------------------------------------------
(* Properties of the repository and of the handlers *)

(* The rows of t with the given id *)
RowsOf(t, id) == {r \in t : r.id = id}

(* r carries the content fields of the movie m *)
HasContent(r, m) ==
    /\ r.title = m.Title
    /\ r.year = m.Year
    /\ r.runtime = m.Runtime
    /\ r.genres = m.Genres

(* p and q hold the same movie at the same version, the one stored now *)
SameObserved(p, q) ==
    /\ p # q
    /\ movie[p] # NilMovie
    /\ movie[q] # NilMovie
    /\ movie[p].ID = movie[q].ID
    /\ movie[p].Version = movie[q].Version
    /\ \E r \in table : r.id = movie[p].ID /\ r.version = movie[p].Version

(* m is a movie that was stored and whose row, in table t, has moved on to *)
(* a later version or is gone                                              *)
Behind(m, t) ==
    /\ m # NilMovie
    /\ m.ID >= 1
    /\ m.ID <= seq
    /\ \A r \in t : r.id = m.ID => r.version > m.Version

(* q holds such a movie *)
Overtaken(q) == Behind(movie[q], table)

(* C1: of two callers holding the same movie at the stored version, the    *)
(* one whose Update reaches the database first succeeds: the row moves to  *)
(* the next version and carries that caller's fields, and the other caller *)
(* is overtaken.  An overtaken caller stays overtaken for as long as it    *)
(* holds that version, and its Update fails with ErrEditConflict and       *)
(* writes nothing.  So exactly one of the two succeeds, in either order,   *)
(* and the winner's write is never overwritten by the loser.  (Each step   *)
(* has that outcome for p, or is not p's Update.)                          *)
CASExactlyOne ==
    [][ /\ call'.op = "Update" =>
              \A p \in Procs, c \in Contents :
                 \/ /\ \A q \in Procs :
                          SameObserved(p, q) =>
                             /\ call'.err = ErrNone
                             /\ movie'[p].Version = movie[p].Version + 1
                             /\ \E r \in table' :
                                  /\ RowsOf(table', movie[p].ID) = {r}
                                  /\ r.version = movie[p].Version + 1
                                  /\ HasContent(r, c)
                             /\ Behind(movie'[q], table')
                    /\ Overtaken(p) =>
                          /\ call'.err = ErrEditConflict
                          /\ table' = table
                 \/ ~UpdateOf(p, c)
        /\ \A q \in Procs :
              ( /\ Overtaken(q)
                /\ movie'[q] # NilMovie
                /\ movie'[q].ID = movie[q].ID
                /\ movie'[q].Version = movie[q].Version ) =>
                 Behind(movie'[q], table')
    ]_vars

(* C1 happens: an Update has just failed with ErrEditConflict; it is q's,  *)
(* whose version is the one p held too before p's Update moved the row on  *)
(* with other fields                                                       *)
CASRaceLost ==
    \E p \in Procs, q \in Procs :
        /\ p # q
        /\ call.op = "Update" /\ call.err = ErrEditConflict
        /\ movie[p] # NilMovie /\ movie[q] # NilMovie
        /\ movie[p].ID = movie[q].ID
        /\ movie[p].Version = movie[q].Version + 1
        /\ movie[p].Title # movie[q].Title
        /\ \E r \in table :
             /\ r.id = movie[p].ID
             /\ r.version = movie[p].Version
             /\ HasContent(r, movie[p])

UpdateConflictWhenNoMatch ==
    [][call'.op = "Update" =>
          \A p \in Procs, c \in Contents :
             ( /\ UpdateOf(p, c)
               /\ ~ \E r \in table :
                      r.id = Held(p).ID /\ r.version = Held(p).Version ) =>
                /\ call'.err = ErrEditConflict
                /\ table' = table
                /\ seq' = seq
                /\ movie'[p].Version = Held(p).Version
    ]_vars

(* C3 happens: an Update of a movie that was deleted has just failed with  *)
(* ErrEditConflict (both callers hold a copy of a deleted movie, so the    *)
(* Update was for one)                                                     *)
ConflictOnDeletedRow ==
    /\ call.op = "Update" /\ call.err = ErrEditConflict
    /\ \A p \in Procs :
         /\ movie[p] # NilMovie
         /\ movie[p].ID \in deleted
         /\ movie[p].Version >= 1

(* C4: the version of a stored movie never goes down; it changes only in  *)
(* a step that is a successful Update of that movie, and then upward       *)
VersionOnlyIncreases ==
    [][\A r \in table, n \in table' :
          n.id = r.id =>
             /\ n.version >= r.version
             /\ n.version # r.version =>
                   /\ call'.op = "Update"
                   /\ call'.err = ErrNone
                   /\ \E p \in Procs, c \in Contents :
                        UpdateOf(p, c) /\ Held(p).ID = r.id
    ]_vars

(* C4 happens: a movie that an Update moved to a later version is still at *)
(* it after a Delete removed another movie                                 *)
UpdatedRowSurvivesDelete ==
    /\ call.op = "Delete" /\ call.err = ErrNone
    /\ \E r \in table : r.version = MaxVersion /\ r.id \notin deleted

(* C5: no step changes the created_at of a stored movie; an Update adds    *)
(* and removes no id, and leaves every row but the one with the id of the  *)
(* caller's movie as it was                                                *)
UpdateFrame ==
    [][ /\ \A r \in table, n \in table' :
              n.id = r.id => n.created_at = r.created_at
        /\ call'.op = "Update" =>
              /\ {n.id : n \in table'} = {r.id : r \in table}
              /\ Cardinality(table') = Cardinality(table)
              /\ \A p \in Procs, c \in Contents :
                    UpdateOf(p, c) =>
                       \A r \in table : r.id # Held(p).ID => r \in table'
    ]_vars

(* C5 happens: an Update has just succeeded on one of two stored movies *)
UpdatedOneOfTwo ==
    /\ call.op = "Update" /\ call.err = ErrNone
    /\ Cardinality(table) = 2
    /\ \E r \in table, o \in table : r.version = MaxVersion /\ o.version = 1

(* C6: a successful Insert adds exactly one row, whose id is at least 1    *)
(* and is the id of no row stored before, whose version is 1 and whose     *)
(* created_at is set; the caller's movie receives that id, created_at and  *)
(* version; the rows stored before are unchanged and ids stay unique       *)
InsertAssigns ==
    [][(call'.op = "Insert" /\ call'.err = ErrNone) =>
          \A p \in Procs, c \in Contents :
             InsertOf(p, c) =>
                /\ \E new \in table' :
                     /\ new \notin table
                     /\ table' = table \cup {new}
                     /\ Cardinality(table') = Cardinality(table) + 1
                     /\ new.id >= 1
                     /\ \A r \in table : r.id # new.id
                     /\ new.version = 1
                     /\ new.created_at > 0
                     /\ HasContent(new, c)
                     /\ movie'[p] = ScanMovie(new)
                /\ \A a \in table', b \in table' : a.id = b.id => a = b
    ]_vars

(* C6 happens: an Insert has just added a second movie, and a caller holds *)
(* it with its new id at version 1                                         *)
InsertedSecond ==
    /\ call.op = "Insert" /\ call.err = ErrNone
    /\ Cardinality(table) = 2
    /\ \E p \in Procs : movie[p] # NilMovie /\ movie[p].ID = seq
                        /\ movie[p].Version = 1 /\ movie[p].CreatedAt > 0

(* C7: whatever create, update and delete requests the handlers have      *)
(* served, every stored movie has genres that are not nil, number 1 to 5   *)
(* and hold no value twice                                                 *)
StoredGenresValid ==
    \A r \in table :
       /\ r.genres # NilSlice
       /\ Len(r.genres) >= 1
       /\ Len(r.genres) <= MaxGenres
       /\ \A i \in 1 .. Len(r.genres), j \in 1 .. Len(r.genres) :
             i # j => r.genres[i] # r.genres[j]

(* C7 happens: an update request has just put two genres into a movie     *)
(* that a create request stored with one                                   *)
GenresReplacedByUpdate ==
    /\ call.op = "Update" /\ resp = StatusOK
    /\ \E r \in table : r.version = MaxVersion /\ Len(r.genres) = 2

(* The ids of 0 or less that callers ask for *)
BelowOne == {i \in IdArgs : i <= 0}

(* C8: Get and Delete with an id of 0 or less fail with ErrRecordNotFound, *)
(* make no backend round trip and leave the store as it was: a step either *)
(* has that outcome or is no Get or Delete with such an id                 *)
NoRoundTripBelowOne ==
    [][ \/ /\ call'.err = ErrRecordNotFound
           /\ call'.trips = 0
           /\ table' = table
           /\ seq' = seq
        \/ \A p \in Procs, id \in BelowOne :
              /\ ~(call'.op = "Get" /\ GetOf(p, id))
              /\ ~(call'.op = "Delete" /\ DeleteOf(p, id))
    ]_vars

(* C8 happens: a call has just failed with ErrRecordNotFound without a     *)
(* round trip while movies are stored                                      *)
ShortCircuited ==
    /\ call.op \in {"Get", "Delete"}
    /\ call.err = ErrRecordNotFound
    /\ call.trips = 0
    /\ table # {}

(* C9: an id that a Delete removed has no row in any later state, and a    *)
(* Get of it fails with ErrRecordNotFound and returns no movie, whatever   *)
(* calls were made since the Delete                                        *)
DeletedStaysGone ==
    [][ /\ \A id \in deleted' : RowsOf(table', id) = {}
        /\ call'.op = "Get" =>
              \A p \in Procs, id \in IdArgs :
                 (id \in deleted /\ GetOf(p, id)) =>
                    /\ call'.err = ErrRecordNotFound
                    /\ movie'[p] = NilMovie
    ]_vars

(* C9 happens: every id has been deleted, and a Get that went to the       *)
(* backend, so for one of these ids, has just failed with                  *)
(* ErrRecordNotFound                                                       *)
GetAfterDelete ==
    /\ call.op = "Get" /\ call.err = ErrRecordNotFound /\ call.trips = 1
    /\ deleted = 1 .. MaxId
    /\ \E p \in Procs : movie[p] # NilMovie /\ movie[p].ID \in deleted

(* C10: a Delete with an id of 1 or more succeeds exactly when a row with  *)
(* that id is stored; then that one row is removed and no other, and if    *)
(* there is none it fails with ErrRecordNotFound and the store is as it was *)
(* (each step has that outcome for the id, or is no Delete of that id)     *)
DeleteIffStored ==
    [][call'.op = "Delete" =>
          \A id \in IdArgs :
             \/ id < 1
             \/ LET gone == RowsOf(table, id)
                IN  /\ call'.err = ErrNone <=> gone # {}
                    /\ gone # {} =>
                          /\ Cardinality(gone) = 1
                          /\ table' = table \ gone
                    /\ gone = {} =>
                          /\ call'.err = ErrRecordNotFound
                          /\ table' = table
                    /\ seq' = seq
             \/ \A p \in Procs : ~DeleteOf(p, id)
    ]_vars

(* C10 happens: a Delete has just succeeded and the other movie is still   *)
(* stored                                                                  *)
DeletedOneOfTwo ==
    /\ call.op = "Delete" /\ call.err = ErrNone
    /\ seq = 2
    /\ Cardinality(table) = 1
    /\ Cardinality(deleted) = 1

(* C11: the status a handler answers with follows what happened:          *)
(* ErrRecordNotFound from the repository gives 404, a failed validation    *)
(* 422, ErrEditConflict 409, a body that could not be decoded 400, and any *)
(* other repository error 500                                              *)
StatusFollowsOutcome ==
    /\ call.err = ErrRecordNotFound => resp = 404
    /\ rejected = InvalidMovie => resp = 422
    /\ call.err = ErrEditConflict => resp = 409
    /\ rejected = BadBody => resp = 400
    /\ call.err \notin {ErrNone, ErrRecordNotFound, ErrEditConflict} =>
          resp = 500

(* C11 happens: a delete request has just been answered 500 because the    *)
(* backend failed while the movie is stored                                *)
ServerErrorOnDelete ==
    /\ call.op = "Delete"
    /\ call.err = ErrStorage
    /\ resp = 500
    /\ table # {}

(* C12 as stated: every request makes the one repository call of its      *)
(* handler, and every update request makes a Get and goes on to its Update *)
EveryRequestCalls ==
    [][ /\ handler' = "create" => call'.op = "Insert"
        /\ handler' = "show" => call'.op = "Get"
        /\ handler' = "delete" => call'.op = "Delete"
        /\ handler' = "update" =>
              /\ call'.op \in {"Get", "Update"}
              /\ call'.op = "Get" =>
                    \E p \in Procs : pc[p] = "idle" /\ pc'[p] = "update"
    ]_vars

(* C12, amended: a request that is rejected for its id, its body or its    *)
(* movie makes no repository call; any other create, show or delete        *)
(* request makes exactly one call, Insert, Get or Delete; an update        *)
(* request makes a Get for the id of the request and, only if the Get      *)
(* succeeded and the request is not rejected, then one Update, which is    *)
(* for the id of the movie the Get returned                                *)
OneCallUnlessRejected ==
    [][ /\ handler' = "create" =>
              call'.op = IF rejected' = NotRejected THEN "Insert" ELSE "none"
        /\ handler' = "show" =>
              call'.op = IF rejected' = NotRejected THEN "Get" ELSE "none"
        /\ handler' = "delete" =>
              call'.op = IF rejected' = NotRejected THEN "Delete" ELSE "none"
        /\ handler' = "update" =>
              IF \E p \in Procs : pc[p] = "update" /\ pc'[p] = "idle"
              THEN call'.op =
                     IF rejected' = NotRejected THEN "Update" ELSE "none"
              ELSE call'.op =
                     IF rejected' = NotRejected THEN "Get" ELSE "none"
        /\ \A p \in Procs :
              (pc[p] = "idle" /\ pc'[p] = "update") =>
                 /\ handler' = "update"
                 /\ call'.op = "Get"
                 /\ call'.err = ErrNone
                 /\ \E r \in table : movie'[p] = ScanMovie(r)
                 /\ \A param \in IdParams :
                       updateMovieHandlerGetOf(p, param) =>
                          movie'[p].ID = param.value
        /\ call'.op = "Update" =>
              \A p \in Procs :
                 (pc[p] = "update" /\ pc'[p] = "idle") =>
                    /\ \A r \in table : r.id # movie[p].ID => r \in table'
                    /\ call'.err = ErrNone =>
                          \E r \in table : r.id = movie[p].ID /\ r \notin table'
    ]_vars

(* C12 happens: an update request has just made its Update while the other *)
(* worker's update request is between its Get and its Update               *)
UpdateCalledAfterGet ==
    /\ handler = "update"
    /\ call.op = "Update"
    /\ call.err = ErrNone
    /\ \E p \in Procs : pc[p] = "update" /\ movie[p] # NilMovie

(* A field the decoded body of an update request carries *)
Supplied(body, field) ==
    /\ field \in DOMAIN body
    /\ field = "Genres" => body.Genres # NilSlice

(* C13: after an update request that succeeded, the stored movie has, for  *)
(* each of title, year, runtime and genres, the value of the body if the   *)
(* body carries the field, and otherwise the value the request's Get read  *)
PartialUpdate ==
    [][(call'.op = "Update" /\ call'.err = ErrNone) =>
          \A p \in Procs :
             (pc[p] = "update" /\ pc'[p] = "idle") =>
                \A body \in PatchBodies :
                   updateMovieHandlerWriteOf(p, body) =>
                      \E r \in RowsOf(table', movie[p].ID) :
                         /\ resp' = StatusOK
                         /\ r.title = IF Supplied(body, "Title")
                                      THEN body.Title ELSE movie[p].Title
                         /\ r.year = IF Supplied(body, "Year")
                                     THEN body.Year ELSE movie[p].Year
                         /\ r.runtime = IF Supplied(body, "Runtime")
                                        THEN body.Runtime
                                        ELSE movie[p].Runtime
                         /\ r.genres = IF Supplied(body, "Genres")
                                       THEN body.Genres ELSE movie[p].Genres
    ]_vars

(* C13 happens: an update request whose body carried a title and a runtime *)
(* has succeeded, and the year and genres are those stored before          *)
PatchedTitleAndRuntime ==
    /\ call.op = "Update" /\ resp = StatusOK
    /\ \E r \in table :
         /\ r.title = OtherBody.Title
         /\ r.runtime = OtherBody.Runtime
         /\ r.year = ValidBody.Year
         /\ r.genres = ValidBody.Genres
         /\ r.version = DefaultVersion + 1

(* C14: every call of the mock store returns no error, makes no round     *)
(* trip and leaves the store as it was; Insert and Update leave the movie  *)
(* passed in as it was, Delete leaves the caller's movie alone, and Get    *)
(* returns a nil movie; so no call returns ErrEditConflict or              *)
(* ErrRecordNotFound                                                       *)
MockDoesNothing ==
    [][ /\ call'.err = ErrNone
        /\ call'.err \notin {ErrEditConflict, ErrRecordNotFound}
        /\ call'.trips = 0
        /\ table' = table
        /\ seq' = seq
        /\ call'.op \in {"Insert", "Update"} =>
              \A p \in Procs, m \in MockMovies :
                 (MockInsertOf(p, m) \/ MockUpdateOf(p, m)) => movie'[p] = m
        /\ call'.op = "Get" =>
              \A p \in Procs, id \in IdArgs :
                 MockGetOf(p, id) => movie'[p] = NilMovie
        /\ call'.op = "Delete" => movie' = movie
    ]_vars

(* C14 happens: the mock's Update has just returned success for a movie    *)
(* with an id and a version although nothing is stored, and the other      *)
(* caller holds the nil movie of a mock Get                                *)
MockUpdateOfNothing ==
    /\ call.op = "Update" /\ call.err = ErrNone /\ call.trips = 0
    /\ table = {}
    /\ \E p \in Procs, q \in Procs :
         /\ movie[p] # NilMovie /\ movie[p].ID = 1 /\ movie[p].Version = 1
         /\ movie[q] = NilMovie

(* C15: GetAll returns without error a slice that is not nil and holds    *)
(* every stored movie exactly once, in ascending order of id; over an      *)
(* empty table the slice is empty                                          *)
GetAllOrderedById ==
    call.op = "GetAll" =>
        /\ call.err = ErrNone
        /\ call.rows # NilMovies
        /\ Len(call.rows) = Cardinality(table)
        /\ \A r \in table :
              \E i \in 1 .. Len(call.rows) : call.rows[i] = ScanMovie(r)
        /\ \A i \in 1 .. Len(call.rows), j \in 1 .. Len(call.rows) :
              i < j => call.rows[i].ID < call.rows[j].ID
        /\ table = {} => call.rows = <<>>

(* C15 happens: GetAll has listed two movies, the one with the lower id    *)
(* being the one written last                                              *)
ListedTwoAfterUpdate ==
    /\ call.op = "GetAll" /\ Len(call.rows) = 2
    /\ call.rows[1].ID = 1 /\ call.rows[1].Version = DefaultVersion + 1
    /\ call.rows[2].ID = 2 /\ call.rows[2].Version = DefaultVersion

(* The rules of ValidateMovie in the order they are checked, as applied   *)
(* to m: whether m satisfies the rule, its field and its message           *)
Rules(m) ==
    << [ok |-> m.Title # "", key |-> "title", message |-> "must be provided"],
       [ok |-> ByteLen(m.Title) <= 500, key |-> "title",
        message |-> "must not be more than 500 bytes long"],
       [ok |-> m.Year # 0, key |-> "year", message |-> "must be provided"],
       [ok |-> m.Year >= 1888, key |-> "year",
        message |-> "must be greater than 1888"],
       [ok |-> m.Year <= CurrentYear, key |-> "year",
        message |-> "must not be in the future"],
       [ok |-> m.Runtime # 0, key |-> "runtime",
        message |-> "must be provided"],
       [ok |-> m.Runtime > 0, key |-> "runtime",
        message |-> "must be a positive integer"],
       [ok |-> m.Genres # NilSlice, key |-> "genres",
        message |-> "must be provided"],
       [ok |-> SliceLen(m.Genres) >= 1, key |-> "genres",
        message |-> "must contain at least 1 genre"],
       [ok |-> SliceLen(m.Genres) <= 5, key |-> "genres",
        message |-> "must not contain more than 5 genres"],
       [ok |-> Unique(m.Genres), key |-> "genres",
        message |-> "must not contain dupliate values"] >>

(* The positions of the rules m violates *)
Violated(m) == {n \in DOMAIN Rules(m) : ~Rules(m)[n].ok}

(* C16: ValidateMovie reports every field that has a violated rule,        *)
(* whatever the other fields are, each with the message of the first rule  *)
(* the field violates, and reports no other field; a movie with empty      *)
(* title, zero year and empty genres has the three field errors title,     *)
(* year and genres                                                         *)
ValidationTotality ==
    LET m == movie[Validating]
    IN  (m # NilMovie /\ handler = NoHandler /\ call = NoCall) =>
          /\ DOMAIN errors = {Rules(m)[n].key : n \in Violated(m)}
          /\ \A k \in DOMAIN errors :
                \E n \in Violated(m) :
                   /\ Rules(m)[n].key = k
                   /\ errors[k] = Rules(m)[n].message
                   /\ \A o \in Violated(m) : Rules(m)[o].key = k => n <= o
          /\ (m.Title = "" /\ m.Year = 0 /\ SliceLen(m.Genres) = 0) =>
                {"title", "year", "genres"} \subseteq DOMAIN errors
          /\ (m.Title = "" /\ m.Year = 0 /\ SliceLen(m.Genres) = 0
                 /\ m.Runtime > 0) => Cardinality(DOMAIN errors) = 3

(* C16 happens: a movie with empty title, zero year and empty genres and a *)
(* good runtime has been validated, and three fields are reported          *)
ThreeFieldErrors ==
    LET m == movie[Validating]
    IN  /\ m # NilMovie
        /\ m.Title = "" /\ m.Year = 0 /\ m.Genres = <<>> /\ m.Runtime = 102
        /\ DOMAIN errors = {"title", "year", "genres"}
        /\ errors["genres"] = "must contain at least 1 genre"

(* The text "102 mins" between double quotes *)
Quoted102Mins == <<"\"", "1", "0", "2", " ", "m", "i", "n", "s", "\"">>

(* C17: a runtime of 102 is written as "102 mins", and a create request    *)
(* whose body carries that text as its runtime decodes it to the runtime   *)
(* 102, which is the runtime of the movie it inserts                       *)
RuntimeRoundTrip ==
    /\ EncodeRuntime(102) = Quoted102Mins
    /\ (handler = "create" /\ wire = EncodeRuntime(102)) =>
          /\ rejected # BadBody
          /\ call.op = "Insert"
          /\ call.err = ErrNone => \E r \in table : r.runtime = 102

(* C17, as the code behaves: a runtime of 102 is written as "102 mins";    *)
(* a create request whose runtime member is the written form of any        *)
(* runtime other than 0 is answered 400 before a movie is built, and one   *)
(* whose runtime member is the bare number 102 inserts a movie of runtime  *)
(* 102                                                                     *)
EncodedRuntimeNotDecoded ==
    /\ EncodeRuntime(102) = Quoted102Mins
    /\ \A r \in CodecRuntimes \ {0} :
          (handler = "create" /\ wire = EncodeRuntime(r)) =>
              /\ rejected = BadBody
              /\ resp = badRequestResponse
              /\ call = NoCall
    /\ (handler = "create" /\ wire = FormatInt(102)) =>
          /\ rejected # BadBody
          /\ call.op = "Insert"
          /\ call.err = ErrNone => \E r \in table : r.runtime = 102

(* C17 happens: a create request carrying "102 mins" has been answered *)
Posted102Mins ==
    /\ handler = "create" /\ wire = Quoted102Mins
    /\ resp = badRequestResponse
    /\ table = {}

(* C18: every repository call that waits for the backend eventually      *)
(* returns; its context never runs beyond the timeout, and a call whose    *)
(* deadline has passed returns an error                                    *)
EveryCallReturns ==
    /\ \A p \in Procs : (ctx[p] # NoCtx) ~> (ctx[p] = NoCtx)
    /\ [](\A p \in Procs : ctx[p].elapsed <= Timeout)
    /\ [][\A p \in Procs :
            (ctx[p] # NoCtx /\ ctx[p].elapsed = Timeout /\ ctx'[p] = NoCtx) =>
                /\ call'.op = ctx[p].op
                /\ call'.err \notin {ErrNone, ErrRecordNotFound,
                                     ErrEditConflict}]_vars

(* C18 happens: an Update of a stored movie has returned the error of its  *)
(* expired context, and the movie is as it was stored                      *)
UpdateTimedOut ==
    /\ call.op = "Update" /\ call.err = ErrStorage
    /\ \E p \in Procs, r \in table :
          /\ ctx[p] = NoCtx /\ movie[p] # NilMovie
          /\ movie[p].ID = r.id /\ r.version = DefaultVersion

(* Two update requests are level: both have fetched the same movie at the *)
(* version the row still has, and neither has written                      *)
Level(p, q) ==
    /\ p # q
    /\ pc[p] = "update" /\ pc[q] = "update"
    /\ movie[p].ID = movie[q].ID /\ movie[p].Version = movie[q].Version
    /\ \E r \in table : r.id = movie[p].ID /\ r.version = movie[p].Version

(* The row r with the content of m and the next version *)
Rewritten(r, m) ==
    [r EXCEPT !.title = m.Title, !.year = m.Year, !.runtime = m.Runtime,
              !.genres = m.Genres, !.version = r.version + 1]

(* C19: of two update requests that fetched the same version of a movie    *)
(* before either wrote, the first whose Update the backend executes is     *)
(* answered 200 and leaves the row with its merged values and the version  *)
(* advanced by one, the other request still holding the old version; and   *)
(* a request whose Update is executed when the row is one version ahead of *)
(* what it fetched is answered 409 and leaves the row as the winner wrote  *)
(* it                                                                      *)
NoLostUpdate ==
    [][ call'.op = "Update" /\ call'.err # ErrStorage =>
          \A p \in Procs : (pc[p] = "update" /\ pc'[p] = "idle") =>
             /\ \A q \in Procs : Level(p, q) =>
                   /\ resp' = StatusOK
                   /\ pc'[q] = "update" /\ movie'[q] = movie[q]
                   /\ \E body \in PatchBodies :
                         /\ updateMovieHandlerWriteOf(p, body)
                         /\ \E r \in table :
                               /\ r.id = movie[p].ID
                               /\ table' = (table \ {r}) \cup
                                    {Rewritten(r, Merge(movie[p], body))}
                               /\ \A f \in DOMAIN body :
                                    Supplied(body, f) =>
                                      Rewritten(r, Merge(movie[p], body))
                                         [CASE f = "Title" -> "title"
                                            [] f = "Year" -> "year"
                                            [] f = "Runtime" -> "runtime"
                                            [] f = "Genres" -> "genres"]
                                        = body[f]
             /\ (\E r \in table : r.id = movie[p].ID
                                  /\ r.version = movie[p].Version + 1) =>
                   /\ resp' = editConflictResponse
                   /\ call'.err = ErrEditConflict
                   /\ table' = table
    ]_vars

(* C19 happens: the second of two level update requests has been answered  *)
(* 409, and the row has the title and runtime the first one sent, at the   *)
(* version after the one both fetched                                      *)
LoserAnswered409 ==
    /\ handler = "update" /\ call.op = "Update"
    /\ call.err = ErrEditConflict /\ resp = editConflictResponse
    /\ \A p \in Procs : pc[p] = "idle"
    /\ \E r \in table :
          /\ r.version = DefaultVersion + 1
          /\ r.title = OtherBody.Title /\ r.runtime = OtherBody.Runtime
          /\ r.year = ValidBody.Year

(* C20: an update request whose movie a delete request removed after its  *)
(* Get, and whose Update the backend executes, is answered 409 for         *)
(* ErrEditConflict, and the table is left without the row                  *)
UpdateOfDeletedConflicts ==
    [][ call'.op = "Update" /\ call'.err # ErrStorage =>
          \A p \in Procs :
             (/\ pc[p] = "update" /\ pc'[p] = "idle"
              /\ movie[p].ID \in deleted
              /\ RowsOf(table, movie[p].ID) = {}) =>
                /\ resp' = editConflictResponse
                /\ resp' \notin {notFoundResponse, StatusOK}
                /\ call'.err = ErrEditConflict
                /\ table' = table
                /\ RowsOf(table', movie[p].ID) = {}
    ]_vars

(* C20 happens: an update request has been answered 409 after a delete     *)
(* request emptied the table                                               *)
UpdateLostToDelete ==
    /\ handler = "update" /\ call.op = "Update"
    /\ call.err = ErrEditConflict /\ resp = editConflictResponse
    /\ deleted # {} /\ table = {}

(* C21: a step of a create or update request that rejects the request    *)
(* for its id parameter, its body or its movie calls neither Insert nor    *)
(* Update and leaves the table and the id sequence as they were; so does   *)
(* the Get step of an update request                                       *)
RejectedWritesNothing ==
    [][ handler' \in {"create", "update"} =>
          /\ rejected' \in {InvalidId, BadBody, InvalidMovie} =>
                /\ call'.op \notin {"Insert", "Update"}
                /\ call' = NoCall
                /\ table' = table
                /\ seq' = seq
                /\ resp' \in {notFoundResponse, badRequestResponse,
                              failedValidationResponse}
          /\ call'.op = "Get" => table' = table /\ seq' = seq
    ]_vars

(* C21 happens: an update request has fetched a stored movie and has then  *)
(* been rejected by the validation, the movie being stored as it was       *)
UpdateRejectedByValidation ==
    /\ handler = "update" /\ rejected = InvalidMovie
    /\ resp = failedValidationResponse
    /\ call = NoCall
    /\ \E r \in table : r.version = DefaultVersion /\ r.title = ValidBody.Title


(* C22: an update request with a valid id, a decodable body and a merged   *)
(* movie that passes validation, whose Update the backend executes while   *)
(* the row is still exactly what the request's own Get read (no write to   *)
(* that id in between), is answered 200 and leaves the row at the version  *)
(* the Get read plus 1, whatever fields the body carries, none included,   *)
(* and whatever the version was: the movie handed to Update carries the    *)
(* version of the Get, the decoded input having no version member          *)
UndisturbedUpdateSucceeds ==
    [][ call'.op = "Update" /\ call'.err # ErrStorage =>
          \A p \in Procs :
             ( /\ pc[p] = "update" /\ pc'[p] = "idle"
               /\ \E r \in table : ScanMovie(r) = movie[p] ) =>
                /\ rejected' = NotRejected
                /\ call'.err = ErrNone
                /\ resp' = StatusOK
                /\ \E r \in table' :
                      /\ r.id = movie[p].ID
                      /\ r.version = movie[p].Version + 1
                      /\ r.created_at = movie[p].CreatedAt
                /\ \A body \in PatchBodies :
                      updateMovieHandlerWriteOf(p, body) =>
                         Merge(movie[p], body).Version = movie[p].Version
    ]_vars

(* C22 happens: an update request whose body changed no field has been     *)
(* answered 200, the row holding what the create request stored, at the    *)
(* next version                                                            *)
UnchangedMovieAdvanced ==
    /\ handler = "update" /\ call.op = "Update" /\ call.err = ErrNone
    /\ resp = StatusOK
    /\ table = {[id |-> 1, created_at |-> 10, title |-> ValidBody.Title,
                 year |-> ValidBody.Year, runtime |-> ValidBody.Runtime,
                 genres |-> ValidBody.Genres,
                 version |-> DefaultVersion + 1]}

(* C23: the response of a create request answered 201 has the status 201,  *)
(* the Location header /v1/movies/<id> with the id the store assigned, and *)
(* a body that is the envelope holding the stored movie and nothing more   *)
CreatedResponseIsEnvelope ==
    (handler = "create" /\ resp = StatusCreated) =>
       \E r \in table :
          /\ r.id = seq
          /\ written.status = StatusCreated
          /\ "Location" \in DOMAIN written.headers
          /\ written.headers["Location"]
                = <<"/v1/movies/">> \o FormatInt(r.id)
          /\ written.body = <<[movie |-> MarshalMovie(ScanMovie(r))]>>

(* What createMovieHandler writes for a create request answered 201: the   *)
(* status, the Location header and the envelope as above, and after the    *)
(* envelope the fields of the decoded input                                *)
CreatedResponseEndsWithDump ==
    (handler = "create" /\ resp = StatusCreated) =>
       \E r \in table :
          /\ r.id = seq
          /\ written.status = StatusCreated
          /\ "Location" \in DOMAIN written.headers
          /\ written.headers["Location"]
                = <<"/v1/movies/">> \o FormatInt(r.id)
          /\ Len(written.body) = 2
          /\ written.body[1] = [movie |-> MarshalMovie(ScanMovie(r))]
          /\ \E body \in CreateBodies :
                /\ written.body[2] = [dump |-> body]
                /\ HasContent(r, body)

(* C23 happens: a create request with the valid body has been answered     *)
(* 201, and the body of the response holds the envelope followed by the    *)
(* fields of the input                                                     *)
CreatedThenDumped ==
    /\ handler = "create" /\ resp = StatusCreated
    /\ call.op = "Insert" /\ call.err = ErrNone
    /\ written.status = StatusCreated
    /\ written.headers["Location"] = <<"/v1/movies/", "1">>
    /\ Len(written.body) = 2
    /\ written.body[2] = [dump |-> ValidBody]

(* C24: over the mock store every step that ends a request has written a   *)
(* response with a status, and no handler has panicked; the update handler *)
(* answers a request whose movie the mock's Get returned as nil            *)
MockRequestsAnswered ==
    /\ rejected # NilDereference
    /\ (handler # NoHandler /\ \A p \in Procs : pc[p] = "idle") =>
          /\ resp # NoResp
          /\ written.status = resp
          /\ written.body # <<>>

(* What the handlers do over the mock: create, show and delete requests,   *)
(* and update requests with a bad id or an undecodable body, are answered; *)
(* the second step of an update request with a decodable body always       *)
(* panics on the nil movie, before Update is called                        *)
UpdateOnMockPanics ==
    [][ /\ handler' \in {"create", "show", "delete"} =>
              /\ rejected' # NilDereference
              /\ resp' # NoResp /\ written'.status = resp'
        /\ \A p \in Procs : (pc[p] = "update" /\ pc'[p] = "idle") =>
              /\ movie[p] = NilMovie
              /\ call' = NoCall
              /\ rejected' \in {BadBody, NilDereference}
              /\ rejected' = NilDereference =>
                    /\ resp' \in {NoResp, serverErrorResponse}
                    /\ table' = table
    ]_vars

(* C24 happens: an update request over the mock has ended in the panic,    *)
(* with nothing written to its response                                    *)
UpdateOnMockPanicked ==
    /\ handler = "update" /\ rejected = NilDereference
    /\ call = NoCall
    /\ resp = NoResp /\ written = NoWrites
    /\ \A p \in Procs : pc[p] = "idle"

(* C25: of the delete requests on the id of a created movie whose DELETE   *)
(* the backend executes, the first one succeeds (no error, 200) and        *)
(* removes the row, and every later one fails with ErrRecordNotFound (404) *)
(* and changes nothing; so of two that race exactly one succeeds,          *)
(* whichever statement the database executes first                         *)
DeleteExactlyOne ==
    [][ (handler' = "delete" /\ call'.err # ErrStorage) =>
          \A p \in Procs, id \in 1 .. seq :
             deleteMovieHandlerOf(p, ParamOf(id)) =>
                IF id \in deleted
                THEN /\ call'.err = ErrRecordNotFound
                     /\ resp' = notFoundResponse
                     /\ table' = table
                     /\ deleted' = deleted
                ELSE /\ call'.err = ErrNone
                     /\ resp' = StatusOK
                     /\ RowsOf(table, id) # {}
                     /\ table' = table \ RowsOf(table, id)
                     /\ deleted' = deleted \cup {id}
    ]_vars

(* C25 happens: the only movie created has been deleted, and a second      *)
(* delete request on its id has been answered 404 for ErrRecordNotFound    *)
SecondDeleteNotFound ==
    /\ handler = "delete" /\ call.op = "Delete"
    /\ call.err = ErrRecordNotFound /\ call.trips = 1
    /\ resp = notFoundResponse
    /\ seq = 1 /\ deleted = {1} /\ table = {}
=============================================================================
